---- MODULE Spec2Model ----
(***************************************************************************)
(* Model of the INA226 power-monitor driver (src/src/INA226.cpp, header    *)
(* src/unnamed/part_000) talking over a two-wire bus to an I2C multiplexer *)
(* and the INA226 sensors behind it.                                       *)
(*                                                                         *)
(* Quantities of type float are held as exact integers counting steps of   *)
(* 4e-7: 0.0003052 = 763 steps, 0.0005 = 1250 steps, 25.0 = 25 (a pure     *)
(* factor), -1.0 = -2500000 steps.  Rounding of the binary32 product is    *)
(* not modelled.                                                           *)
(***************************************************************************)
EXTENDS Integers, Sequences, FiniteSets, TLC

(* ---------------------------------------------------------------------- *)
(* Program constants                                                       *)
(* ---------------------------------------------------------------------- *)
MUX_ADDR == 117
STD_ADDR == 64
CAL_REG == 5
PWR_REG == 3

ZCU102 == 0
ZCU106 == 1
NUM_BOARDS == 2

PS == 0
PL == 1
NUM_SENS == 2

I2C_SPEED_HIGH == 400000
I2C_SPEED_LOW == 100000
MUX_SENSOR_OFFSET == 4
POWER_LSB_SCALE == 25

\* the literal -1.0f returned by get_pwr, in steps of 4e-7
SENTINEL == -2500000

\* static const uint16_t cal_reg[NUM_BOARDS][2]
cal_reg == <<(<<3355, 2048>>), (<<3355, 2048>>)>>
\* static const float lsb_val[NUM_SENS][2], in steps of 4e-7
lsb_val == <<(<<763, 1250>>), (<<763, 1250>>)>>

(* ---------------------------------------------------------------------- *)
(* Input domains                                                           *)
(* ---------------------------------------------------------------------- *)
\* the enumerators that name a board / a rail
Boards == {ZCU102, ZCU106}
Sensors == {PS, PL}
\* every enumerator of board_typeDef / sensor_typeDef, the counting
\* enumerators NUM_BOARDS and NUM_SENS included
BoardEnum == {ZCU102, ZCU106, NUM_BOARDS}
SensorEnum == {PS, PL, NUM_SENS}

\* addresses at which an INA226 sits behind each multiplexer channel
SensorAddrs == {STD_ADDR, STD_ADDR + 1}
\* registers of a sensor that keep what is written to them: configuration
\* (address 0) and calibration
Regs == {0, CAL_REG}
\* raw contents a sensor's power register holds when it is read
RawValues == {0, 1, 100, 255, 256, 32767, 32768, 65280, 65535}
\* endTransmission status codes: 0 success, 2 address NACK, 4 other error
Status == {0, 2, 4}
\* byte counts requestFrom(_, 2) can return
Counts == {0, 1, 2}
\* caller-side clock requests handed to set_I2C_speed
SpeedRequests == {0, 6784, 34464, 65535, 100000, 400000}
\* values read from beyond the end of cal_reg / lsb_val
OobCal == {0, 65535}
OobLsb == {0, 1250}
\* values and registers of the write/read round trip
RTValues == {0, 1, 255, 256, 4660, 32767, 32768, 43981, 65280, 65535}

NoRail == 0 - 1

\* the sentinel returns of get_pwr are counted up to this many
MaxSentinels == 2
\* the lines the serial port is followed for
MaxLines == 5

\* build configurations of the sketch: the board macro defined, if any
BoardMacros == {"BOARD_ZCU106", "BOARD_ZCU102", "none"}
\* what the bus answers to the calibration of setup(): all acknowledged, or
\* the first select refused
SetupAnswers ==
    {[i \in 1..NUM_SENS |-> <<0, 0>>],
     [i \in 1..NUM_SENS |-> IF i = 1 THEN <<2, 0>> ELSE <<0, 0>>]}
\* what the bus answers to a get_pwr of loop(): select refused, or a reading
LoopAnswers == {<<2, 0, 0, 0>>, <<0, 0, 2, 100>>}
\* what a get_pwr through the null pointer hands back when it returns at all
NullReturns == {0, 0 - 2500000}

(* ---------------------------------------------------------------------- *)
(* Fixed-width arithmetic                                                  *)
(* ---------------------------------------------------------------------- *)
ToUint8(x) == x % 256
ToUint16(x) == x % 65536
ToInt8(x) == IF (x % 256) >= 128 THEN (x % 256) - 256 ELSE x % 256

RECURSIVE BitOr(_, _)
BitOr(a, b) ==
    IF a = 0 THEN b
    ELSE IF b = 0 THEN a
    ELSE (IF a % 2 = 1 \/ b % 2 = 1 THEN 1 ELSE 0) + 2 * BitOr(a \div 2, b \div 2)

RECURSIVE BitAnd(_, _)
BitAnd(a, b) ==
    IF a = 0 \/ b = 0 THEN 0
    ELSE (IF a % 2 = 1 /\ b % 2 = 1 THEN 1 ELSE 0) + 2 * BitAnd(a \div 2, b \div 2)

(* ---------------------------------------------------------------------- *)
(* State                                                                   *)
(* ---------------------------------------------------------------------- *)
VARIABLES
    ina,        \* "null" before construction, "constructed" after
    _address,   \* INA226::_address
    _board,     \* INA226::_board
    clock,      \* bus clock last handed to TwoWire::setClock (0: never set)
    muxCtl,     \* control byte the multiplexer last acknowledged
    regs,       \* what the sensors' registers keep: regs[rail][addr][reg] = <<first byte, second byte>>
    rxBuf,      \* TwoWire receive buffer: bytes received and not yet read
    op,         \* the latest operation: [name, arg, ret]
    tx,         \* the bus calls the latest operation made, in order
    nCalWr,     \* number of write transactions to register CAL_REG issued so far
    oob,        \* TRUE once cal_reg or lsb_val was indexed out of its bounds
    sentinels,  \* number of get_pwr calls that returned the sentinel so far
    \* the sketch (src/src/src.ino, src/unnamed/part_002)
    build,      \* build configuration: [board, ext]; ext: EXT_TRIGGER is defined
    pc,         \* where the sketch is: "setup", a place in loop(), "halt"; "driver" when no sketch runs
    pin,        \* level of TRIGGER_PIN, TRUE for HIGH
    lastTrigState,
    logging,
    interrupt,
    current,    \* the local of loop() in part_002
    pwr_ps,
    pwr_pl,
    serial,     \* the lines printed: "#START", "#STOP" or "line" (a reading)
    nullCall    \* TRUE once get_pwr was called through the unassigned pointer ina

drvVars == <<ina, _address, _board, clock, muxCtl, regs, rxBuf, op, tx, nCalWr, oob, sentinels>>
skVars == <<build, pc, pin, lastTrigState, logging, interrupt, current, pwr_ps, pwr_pl, serial, nullCall>>
vars == <<drvVars, skVars>>

(* ---------------------------------------------------------------------- *)
(* The bus, the multiplexer and the sensors behind it                      *)
(* A bus state w is [mux, regs, rx, clock, tx, last]: the hardware state,  *)
(* the calls made so far and the result of the latest call.                *)
(* ---------------------------------------------------------------------- *)
Entry(kind, addr, bytes, res) ==
    [kind |-> kind, addr |-> addr, bytes |-> bytes, res |-> res, rail |-> NoRail]

\* the entry of a call addressed to a sensor: rail is the rail the
\* multiplexer connects while the call is made
OnRail(e, rail) == [e EXCEPT !.rail = rail]

\* the rail whose sensors the multiplexer connects under control byte ctl:
\* the selector sends rail + MUX_SENSOR_OFFSET
Routed(ctl) ==
    IF (ctl - MUX_SENSOR_OFFSET) \in Sensors THEN ctl - MUX_SENSOR_OFFSET ELSE NoRail

\* the downstream channels a TCA9548A connects under control byte ctl:
\* channel c is on when bit c of the byte is set
TcaChannels(ctl) == {c \in 0..7 : (ctl \div (2 ^ c)) % 2 = 1}

\* some device answers at addr
Ackable(mux, addr) ==
    \/ addr = MUX_ADDR
    \/ Routed(mux) # NoRail /\ addr \in SensorAddrs

\* TwoWire::begin
WireBegin(w) ==
    [w EXCEPT !.tx = Append(@, Entry("begin", 0, <<>>, 0)), !.last = 0]

\* TwoWire::setClock
WireSetClock(w, hz) ==
    [w EXCEPT !.clock = hz, !.tx = Append(@, Entry("setClock", 0, <<>>, hz)), !.last = 0]

\* beginTransmission(addr); write(b) for each b of bytes; endTransmission().
\* st is the status the transport is about to report; nothing acknowledges
\* when no device answers at addr.
Transmit(w, addr, bytes, st) ==
    LET s == IF st = 0 /\ ~Ackable(w.mux, addr) THEN 2 ELSE st
        r == Routed(w.mux)
        mux2 == IF s = 0 /\ addr = MUX_ADDR THEN bytes[Len(bytes)] ELSE w.mux
        regs2 == IF s = 0 /\ addr # MUX_ADDR /\ Len(bytes) = 3 /\ bytes[1] \in Regs
                 THEN [w.regs EXCEPT ![r][addr][bytes[1]] = <<bytes[2], bytes[3]>>]
                 ELSE w.regs
    IN [w EXCEPT !.mux = mux2, !.regs = regs2,
                 !.tx = Append(@, OnRail(Entry("transmit", addr, bytes, s),
                                         IF addr = MUX_ADDR THEN NoRail ELSE r)),
                 !.last = s]

\* what the sensor of rail at addr sends when register reg is read: the
\* power register holds the latest conversion (raw), first byte high; the
\* other registers hold the bytes last written
DeviceRegister(w, rail, addr, reg, raw) ==
    IF reg = PWR_REG THEN <<raw \div 256, raw % 256>>
    ELSE IF reg \in Regs THEN w.regs[rail][addr][reg]
    ELSE <<0, 0>>

\* requestFrom(addr, n): the device sends the register its pointer names
\* (reg), got bytes of it arrive
RequestFrom(w, addr, n, got, reg, raw) ==
    LET g == IF Ackable(w.mux, addr) /\ addr # MUX_ADDR THEN got ELSE 0
        data == IF g = 0 THEN <<>>
                ELSE SubSeq(DeviceRegister(w, Routed(w.mux), addr, reg, raw), 1, g)
    IN [w EXCEPT !.rx = data,
                 !.tx = Append(@, OnRail(Entry("requestFrom", addr, data, g), Routed(w.mux))),
                 !.last = g]

\* TwoWire::read: the next received byte, -1 when there is none
WireRead(w) ==
    LET b == IF w.rx = <<>> THEN 0 - 1 ELSE Head(w.rx)
    IN [w EXCEPT !.rx = IF w.rx = <<>> THEN <<>> ELSE Tail(w.rx),
                 !.tx = Append(@, Entry("read", 0, <<>>, b)),
                 !.last = b]

(* ---------------------------------------------------------------------- *)
(* The driver's functions.  Each returns [w, ret]: the bus state it leaves *)
(* and its return value.                                                   *)
(* ---------------------------------------------------------------------- *)
\* INA226::set_I2C_speed(uint16_t &speed)
set_I2C_speed(w, speed) ==
    WireSetClock(w, IF speed = I2C_SPEED_HIGH THEN I2C_SPEED_HIGH ELSE I2C_SPEED_LOW)

\* INA226::_sel_sensor
_sel_sensor(w, sensor, st) ==
    LET w1 == Transmit(w, MUX_ADDR, <<ToUint8(sensor + MUX_SENSOR_OFFSET)>>, st)
    IN [w |-> w1, ret |-> ToInt8(w1.last)]

\* _write_reg that sends the low byte before the high byte
_write_reg_lowFirst(w, addr, reg, val, st) ==
    LET w1 == Transmit(w, addr, <<reg, ToUint8(BitAnd(val, 255)), ToUint8(val \div 256)>>, st)
    IN [w |-> w1, ret |-> ToInt8(w1.last)]

\* INA226::_write_reg
_write_reg(w, addr, reg, val, st) ==
    LET w1 == Transmit(w, addr, <<reg, ToUint8(val \div 256), ToUint8(BitAnd(val, 255))>>, st)
    IN [w |-> w1, ret |-> ToInt8(w1.last)]

\* _read_reg that gives up only when no byte at all arrived
_read_reg_anyCount(w, addr, reg, st, got, raw) ==
    LET w1 == Transmit(w, addr, <<reg>>, st)
        w2 == RequestFrom(w1, addr, 2, got, reg, raw)
        w3 == WireRead(w2)
        v1 == ToUint16(ToUint16(w3.last) * 256)
        w4 == WireRead(w3)
        v2 == ToUint16(BitOr(v1, ToUint16(w4.last)))
    IN IF w1.last # 0 THEN [w |-> w1, ret |-> 0 - 1]
       ELSE IF w2.last = 0 THEN [w |-> w2, ret |-> 0 - 1]
       ELSE [w |-> w4, ret |-> v2]

\* _read_reg that returns the value through a 16-bit signed type
_read_reg_int16(w, addr, reg, st, got, raw) ==
    LET w1 == Transmit(w, addr, <<reg>>, st)
        w2 == RequestFrom(w1, addr, 2, got, reg, raw)
        w3 == WireRead(w2)
        v1 == ToUint16(ToUint16(w3.last) * 256)
        w4 == WireRead(w3)
        v2 == ToUint16(BitOr(v1, ToUint16(w4.last)))
    IN IF w1.last # 0 THEN [w |-> w1, ret |-> 0 - 1]
       ELSE IF w2.last # 2 THEN [w |-> w2, ret |-> 0 - 1]
       ELSE [w |-> w4, ret |-> IF v2 >= 32768 THEN v2 - 65536 ELSE v2]

\* INA226::_read_reg
_read_reg(w, addr, reg, st, got, raw) ==
    LET w1 == Transmit(w, addr, <<reg>>, st)
        w2 == RequestFrom(w1, addr, 2, got, reg, raw)
        w3 == WireRead(w2)
        v1 == ToUint16(ToUint16(w3.last) * 256)
        w4 == WireRead(w3)
        v2 == ToUint16(BitOr(v1, ToUint16(w4.last)))
    IN IF w1.last # 0 THEN [w |-> w1, ret |-> 0 - 1]
       ELSE IF w2.last # 2 THEN [w |-> w2, ret |-> 0 - 1]
       ELSE [w |-> w4, ret |-> v2]

\* lsb_val indexed with the rail as row and the board as column
LsbAt_swapped(board, sensor, junk) ==
    IF sensor + 1 \in DOMAIN lsb_val /\ board + 1 \in DOMAIN lsb_val[sensor + 1]
    THEN lsb_val[sensor + 1][board + 1] ELSE junk

\* lsb_val[board][sensor]; junk is what a read beyond the table yields
LsbAt(board, sensor, junk) ==
    IF board + 1 \in DOMAIN lsb_val /\ sensor + 1 \in DOMAIN lsb_val[board + 1]
    THEN lsb_val[board + 1][sensor + 1] ELSE junk

\* cal_reg read at column PS for every rail
CalAt_firstColumn(board, i, junk) ==
    IF board + 1 \in DOMAIN cal_reg THEN cal_reg[board + 1][1] ELSE junk

\* cal_reg[board][i]
CalAt(board, i, junk) ==
    IF board + 1 \in DOMAIN cal_reg /\ i + 1 \in DOMAIN cal_reg[board + 1]
    THEN cal_reg[board + 1][i + 1] ELSE junk

\* the table accesses of one call stay inside cal_reg / lsb_val
LsbInBounds(board, sensor) ==
    board + 1 \in DOMAIN lsb_val /\ sensor + 1 \in DOMAIN lsb_val[board + 1]
CalInBounds(board) == board + 1 \in DOMAIN cal_reg

\* get_pwr that reads the register whatever the select returned
get_pwr_ignoreSelect(w, addr, board, sensor, st1, st2, got, raw, junk) ==
    LET s == _sel_sensor(w, sensor, st1)
        r == _read_reg(s.w, addr, PWR_REG, st2, got, raw)
    IN IF r.ret < 0 THEN [w |-> r.w, ret |-> SENTINEL, idx |-> FALSE]
       ELSE [w |-> r.w,
             ret |-> r.ret * (LsbAt(board, sensor, junk) * POWER_LSB_SCALE),
             idx |-> TRUE]

\* get_pwr that reads the register a second time when the first read failed
get_pwr_retry(w, addr, board, sensor, st1, st2, got, raw, junk) ==
    LET s == _sel_sensor(w, sensor, st1)
        r1 == _read_reg(s.w, addr, PWR_REG, st2, got, raw)
        r == IF r1.ret < 0 THEN _read_reg(r1.w, addr, PWR_REG, st2, got, raw) ELSE r1
    IN IF s.ret # 0 THEN [w |-> s.w, ret |-> SENTINEL, idx |-> FALSE]
       ELSE IF r.ret < 0 THEN [w |-> r.w, ret |-> SENTINEL, idx |-> FALSE]
       ELSE [w |-> r.w,
             ret |-> r.ret * (LsbAt(board, sensor, junk) * POWER_LSB_SCALE),
             idx |-> TRUE]

\* get_pwr that gives up without touching the bus once a call has failed
get_pwr_latched(w, addr, board, sensor, st1, st2, got, raw, junk) ==
    LET s == _sel_sensor(w, sensor, st1)
        r == _read_reg(s.w, addr, PWR_REG, st2, got, raw)
    IN IF sentinels > 0 THEN [w |-> w, ret |-> SENTINEL, idx |-> FALSE]
       ELSE IF s.ret # 0 THEN [w |-> s.w, ret |-> SENTINEL, idx |-> FALSE]
       ELSE IF r.ret < 0 THEN [w |-> r.w, ret |-> SENTINEL, idx |-> FALSE]
       ELSE [w |-> r.w,
             ret |-> r.ret * (LsbAt(board, sensor, junk) * POWER_LSB_SCALE),
             idx |-> TRUE]

\* get_pwr that reads the register without selecting the rail first
get_pwr_noSelect(w, addr, board, sensor, st1, st2, got, raw, junk) ==
    LET r == _read_reg(w, addr, PWR_REG, st2, got, raw)
    IN IF r.ret < 0 THEN [w |-> r.w, ret |-> SENTINEL, idx |-> FALSE]
       ELSE [w |-> r.w,
             ret |-> r.ret * (LsbAt(board, sensor, junk) * POWER_LSB_SCALE),
             idx |-> TRUE]

\* get_pwr that takes a raw value of 0 for a failed read
get_pwr_zeroFails(w, addr, board, sensor, st1, st2, got, raw, junk) ==
    LET s == _sel_sensor(w, sensor, st1)
        r == _read_reg(s.w, addr, PWR_REG, st2, got, raw)
    IN IF s.ret # 0 THEN [w |-> s.w, ret |-> SENTINEL, idx |-> FALSE]
       ELSE IF r.ret <= 0 THEN [w |-> r.w, ret |-> SENTINEL, idx |-> FALSE]
       ELSE [w |-> r.w,
             ret |-> r.ret * (LsbAt(board, sensor, junk) * POWER_LSB_SCALE),
             idx |-> TRUE]

\* INA226::get_pwr.  st1: status of the mux select, st2: status of the
\* register-pointer write, got: byte count of the request, raw: content of
\* the power register of the sensor that answers.
get_pwr(w, addr, board, sensor, st1, st2, got, raw, junk) ==
    LET s == _sel_sensor(w, sensor, st1)
        r == _read_reg(s.w, addr, PWR_REG, st2, got, raw)
    IN IF s.ret # 0 THEN [w |-> s.w, ret |-> SENTINEL, idx |-> FALSE]
       ELSE IF r.ret < 0 THEN [w |-> r.w, ret |-> SENTINEL, idx |-> FALSE]
       ELSE [w |-> r.w,
             ret |-> r.ret * (LsbAt(board, sensor, junk) * POWER_LSB_SCALE),
             idx |-> TRUE]

\* the calibration loop of the constructors, from index i on;
\* sts[i + 1] = <<status of the select, status of the write>> of round i
RECURSIVE CalLoop(_, _, _, _, _, _)
CalLoop(w, addr, board, i, sts, junk) ==
    IF i < NUM_SENS
    THEN LET s == _sel_sensor(w, i, sts[i + 1][1])
             c == _write_reg(s.w, addr, CAL_REG, CalAt(board, i, junk), sts[i + 1][2])
         IN CalLoop(c.w, addr, board, i + 1, sts, junk)
    ELSE w

\* body of both constructors: begin, set the clock, calibrate.  hz is the
\* constant handed to set_I2C_speed, converted to its uint16_t parameter.
Construct(w, addr, board, hz, sts, junk) ==
    CalLoop(set_I2C_speed(WireBegin(w), ToUint16(hz)), addr, board, 0, sts, junk)

\* set_addr that leaves _address as it was
set_addr_keep(cur, addr) == cur

\* INA226::set_addr: the address the driver holds afterwards
set_addr(cur, addr) == addr

(* ---------------------------------------------------------------------- *)
(* Operations                                                              *)
(* ---------------------------------------------------------------------- *)
\* the bus as an operation finds it
W0 == [mux |-> muxCtl, regs |-> regs, rx |-> rxBuf, clock |-> clock, tx |-> <<>>, last |-> 0]

Op(name, arg, ret) == [name |-> name, arg |-> arg, ret |-> ret]

IsCalWrite(e) == e.kind = "transmit" /\ Len(e.bytes) = 3 /\ e.bytes[1] = CAL_REG
IsSelect(e) == e.kind = "transmit" /\ e.addr = MUX_ADDR
IsPtrWrite(e) == e.kind = "transmit" /\ e.addr # MUX_ADDR /\ Len(e.bytes) = 1
IsRequest(e) == e.kind = "requestFrom"
IsRead(e) == e.kind = "read"
IsSensorTx(e) == (e.kind = "transmit" /\ e.addr # MUX_ADDR) \/ e.kind = "requestFrom"

\* how many calls of each kind a trace holds
NumCalWrites(t) == Cardinality({i \in DOMAIN t : IsCalWrite(t[i])})
NumSelects(t) == Cardinality({i \in DOMAIN t : IsSelect(t[i])})
NumPtrWrites(t) == Cardinality({i \in DOMAIN t : IsPtrWrite(t[i])})
NumRequests(t) == Cardinality({i \in DOMAIN t : IsRequest(t[i])})
NumReads(t) == Cardinality({i \in DOMAIN t : IsRead(t[i])})
NumSensorTx(t) == Cardinality({i \in DOMAIN t : IsSensorTx(t[i])})

\* the bus as an operation leaves it
Commit(w) ==
    /\ muxCtl' = w.mux
    /\ regs' = w.regs
    /\ rxBuf' = w.rx
    /\ clock' = w.clock
    /\ tx' = w.tx
    /\ nCalWr' = nCalWr + NumCalWrites(w.tx)

\* the globals of the sketch as the program starts
SketchGlobals ==
    /\ pin \in BOOLEAN
    /\ lastTrigState = FALSE
    /\ logging = FALSE
    /\ interrupt = FALSE
    /\ current = FALSE
    /\ pwr_ps = 0
    /\ pwr_pl = 0
    /\ serial = <<>>
    /\ nullCall = FALSE

\* the driver used on its own, by a caller that is not modelled
NoSketch ==
    /\ build = [board |-> NoRail, ext |-> FALSE]
    /\ pc = "driver"
    /\ pin = FALSE
    /\ lastTrigState = FALSE
    /\ logging = FALSE
    /\ interrupt = FALSE
    /\ current = FALSE
    /\ pwr_ps = 0
    /\ pwr_pl = 0
    /\ serial = <<>>
    /\ nullCall = FALSE

Init ==
    /\ ina = "null"
    /\ _address = 0
    /\ _board = 0
    /\ clock = 0
    /\ muxCtl = 0
    /\ regs = [r \in Sensors |-> [a \in SensorAddrs |-> [g \in Regs |-> <<0, 0>>]]]
    /\ rxBuf = <<>>
    /\ op = Op("none", <<>>, 0)
    /\ tx = <<>>
    /\ nCalWr = 0
    /\ oob = FALSE
    /\ sentinels = 0
    /\ NoSketch

\* what the bus and the sensor answer to one register read that follows a
\* select: <<status of the select, status of the register-pointer write,
\* byte count of the request, content of the power register>>.  An answer
\* to a step that follows a failed one is never asked for and is given as 0;
\* the one byte of a short read is never looked at and takes its two extremes.
ReadAnswers ==
    {<<st1, 0, 0, 0>> : st1 \in Status \ {0}}
    \cup {<<0, st2, 0, 0>> : st2 \in Status \ {0}}
    \cup {<<0, 0, 0, 0>>}
    \cup {<<0, 0, 1, raw>> : raw \in {0, 65535}}
    \cup {<<0, 0, 2, raw>> : raw \in RawValues}

\* ina = new INA226(board), the bus answering the calibration with one of answers
NewDefaultWith(board, answers) ==
    /\ ina = "null"
    /\ \E sts \in answers,
          junk \in (IF CalInBounds(board) THEN {0} ELSE OobCal) :
         /\ Commit(Construct(W0, STD_ADDR, board, I2C_SPEED_HIGH, sts, junk))
         /\ oob' = (oob \/ ~CalInBounds(board))
    /\ ina' = "constructed"
    /\ _address' = STD_ADDR
    /\ _board' = board
    /\ op' = Op("INA226", <<board>>, 0)
    /\ UNCHANGED sentinels

\* ina = new INA226(board): the constructor with the default address
NewDefault(board) == NewDefaultWith(board, [1..NUM_SENS -> Status \X Status])

\* ina = new INA226(addr, board): the constructor with a given address
NewAddr(addr, board) ==
    /\ ina = "null"
    /\ \E sts \in [1..NUM_SENS -> Status \X Status],
          junk \in (IF CalInBounds(board) THEN {0} ELSE OobCal) :
         /\ Commit(Construct(W0, addr, board, 400000, sts, junk))
         /\ oob' = (oob \/ ~CalInBounds(board))
    /\ ina' = "constructed"
    /\ _address' = addr
    /\ _board' = board
    /\ op' = Op("INA226", <<board, addr>>, 0)
    /\ UNCHANGED sentinels

\* the count of sentinel returns after a call that returned ret
CountSentinel(n, ret) ==
    IF ret = SENTINEL /\ n < MaxSentinels THEN n + 1 ELSE n

\* ina->get_pwr(sensor), the bus answering with one of answers
GetPwrWith(sensor, answers) ==
    /\ ina = "constructed"
    /\ \E a \in answers :
       \E junk \in (IF LsbInBounds(_board, sensor) \/ a[3] # 2 THEN {0} ELSE OobLsb) :
         LET r == get_pwr(W0, _address, _board, sensor, a[1], a[2], a[3], a[4], junk)
         IN /\ Commit(r.w)
            /\ op' = Op("get_pwr", <<sensor>>, r.ret)
            /\ oob' = (oob \/ (r.idx /\ ~LsbInBounds(_board, sensor)))
            /\ sentinels' = CountSentinel(sentinels, r.ret)
    /\ UNCHANGED <<ina, _address, _board>>

\* ina->get_pwr(sensor)
Call_get_pwr(sensor) == GetPwrWith(sensor, ReadAnswers)

\* ina->set_addr(addr)
Call_set_addr(addr) ==
    /\ ina = "constructed"
    /\ _address' = set_addr(_address, addr)
    /\ op' = Op("set_addr", <<addr>>, 0)
    /\ tx' = <<>>
    /\ UNCHANGED <<ina, _board, clock, muxCtl, regs, rxBuf, nCalWr, oob, sentinels>>

\* ina->set_I2C_speed(hz): hz is converted to the uint16_t parameter
Call_set_I2C_speed(hz) ==
    /\ ina = "constructed"
    /\ Commit(set_I2C_speed(W0, ToUint16(hz)))
    /\ op' = Op("set_I2C_speed", <<hz>>, 0)
    /\ UNCHANGED <<ina, _address, _board, oob, sentinels>>

\* the operations, with boards and rails drawn from bs and ss
NextOver(bs, ss) ==
    /\ \/ \E b \in bs : NewDefault(b)
       \/ \E a \in SensorAddrs, b \in bs : NewAddr(a, b)
       \/ \E s \in ss : Call_get_pwr(s)
       \/ \E a \in SensorAddrs : Call_set_addr(a)
       \/ \E hz \in SpeedRequests : Call_set_I2C_speed(hz)
    /\ UNCHANGED skVars

Next == NextOver(Boards, Sensors)

\* callers hand the driver only enumerators that name a board or a rail
Spec == Init /\ [][Next]_vars

NextAnyEnum == NextOver(BoardEnum, SensorEnum)

\* callers hand the driver any enumerator of board_typeDef / sensor_typeDef
SpecAnyEnum == Init /\ [][NextAnyEnum]_vars

(* ---------------------------------------------------------------------- *)
(* The register write path followed by the register read path              *)
(* ---------------------------------------------------------------------- *)
\* a constructed driver, some rail routed or none, every register of the
\* store holding the same earlier content
InitRT ==
    /\ ina = "constructed"
    /\ _address \in SensorAddrs
    /\ _board \in Boards
    /\ clock = I2C_SPEED_LOW
    /\ muxCtl \in {0} \cup {r + MUX_SENSOR_OFFSET : r \in Sensors}
    /\ \E old \in {<<0, 0>>, <<255, 255>>, <<18, 52>>} :
         regs = [r \in Sensors |-> [a \in SensorAddrs |-> [g \in Regs |-> old]]]
    /\ rxBuf = <<>>
    /\ op = Op("none", <<>>, 0)
    /\ tx = <<>>
    /\ nCalWr = NUM_SENS
    /\ oob = FALSE
    /\ sentinels = 0
    /\ NoSketch

\* _write_reg(reg, v) followed by _read_reg(reg)
RoundTrip(reg, v) ==
    /\ op.name = "none"
    /\ \E st1 \in Status, st2 \in Status, got \in Counts :
         LET a == _write_reg(W0, _address, reg, v, st1)
             b == _read_reg(a.w, _address, reg, st2, got, 0)
         IN /\ Commit(b.w)
            /\ op' = Op("roundtrip", <<reg, v>>, b.ret)
    /\ UNCHANGED <<ina, _address, _board, oob, sentinels>>
    /\ UNCHANGED skVars

NextRT == \E reg \in Regs, v \in RTValues : RoundTrip(reg, v)

SpecRT == InitRT /\ [][NextRT]_vars

\* ---------------------------------------------------------------------
\* The sketches: src/src/src.ino polls the trigger pin, src/unnamed/part_002
\* follows it with an interrupt.  Both share setup() but for attachInterrupt.

\* the toggle that follows every rising edge, whatever the pin does later
EdgeToggle_level(trigState, last, log) == trigState

\* lines 58-61 of src.ino: logging after the edge check
EdgeToggle(trigState, last, log) ==
    IF trigState /\ ~last THEN ~log ELSE log

\* the argument of Serial.println in the edge check
Marker(log) == IF log THEN "#START" ELSE "#STOP"

\* the program as it starts, built with one of macros
InitSketchOver(macros) ==
    /\ ina = "null"
    /\ _address = 0
    /\ _board = 0
    /\ clock = 0
    /\ muxCtl = 0
    /\ regs = [r \in Sensors |-> [a \in SensorAddrs |-> [g \in Regs |-> <<0, 0>>]]]
    /\ rxBuf = <<>>
    /\ op = Op("none", <<>>, 0)
    /\ tx = <<>>
    /\ nCalWr = 0
    /\ oob = FALSE
    /\ sentinels = 0
    /\ build \in [board : macros, ext : BOOLEAN]
    /\ pc = "setup"
    /\ SketchGlobals

\* setup(): constructs the driver when a board macro is defined, lights the
\* LED otherwise and leaves ina as it is.  first is where loop() starts.
Setup(first) ==
    /\ pc = "setup"
    /\ IF build.board = "BOARD_ZCU106" THEN NewDefaultWith(ZCU106, SetupAnswers)
       ELSE IF build.board = "BOARD_ZCU102" THEN NewDefaultWith(ZCU102, SetupAnswers)
       ELSE /\ op' = Op("setup", <<>>, 0)
            /\ tx' = <<>>
            /\ UNCHANGED <<ina, _address, _board, clock, muxCtl, regs, rxBuf,
                           nCalWr, oob, sentinels>>
    /\ pc' = first
    /\ UNCHANGED <<build, pin, lastTrigState, logging, interrupt, current,
                   pwr_ps, pwr_pl, serial, nullCall>>

\* the device starts over: the globals are initialised again, what was
\* printed stays printed
Restart ==
    /\ pc' = "setup"
    /\ ina' = "null"
    /\ lastTrigState' = FALSE
    /\ logging' = FALSE
    /\ interrupt' = FALSE
    /\ current' = FALSE
    /\ pwr_ps' = 0
    /\ pwr_pl' = 0

\* the trigger line changes level
PinChange ==
    /\ build.ext
    /\ pc = "loop"
    /\ pin' = ~pin
    /\ UNCHANGED drvVars
    /\ UNCHANGED <<build, pc, lastTrigState, logging, interrupt, current,
                   pwr_ps, pwr_pl, serial, nullCall>>

\* loop() of src.ino returning at line 66: nothing is read
PolledIdle ==
    /\ op' = Op("loop", <<pin>>, 0)
    /\ tx' = <<>>
    /\ UNCHANGED <<ina, _address, _board, clock, muxCtl, regs, rxBuf, nCalWr,
                   oob, sentinels>>
    /\ UNCHANGED <<pc, pwr_ps, pwr_pl, nullCall>>

\* lines 70-77 of src.ino with a constructed driver: both rails are read
\* and the line is printed
PolledRead(out) ==
    /\ \E a \in LoopAnswers, b \in LoopAnswers :
         LET r1 == get_pwr(W0, _address, _board, PS, a[1], a[2], a[3], a[4], 0)
             r2 == get_pwr(r1.w, _address, _board, PL, b[1], b[2], b[3], b[4], 0)
         IN /\ Commit(r2.w)
            /\ pwr_ps' = r1.ret
            /\ pwr_pl' = r2.ret
            /\ sentinels' = CountSentinel(CountSentinel(sentinels, r1.ret), r2.ret)
    /\ op' = Op("loop", <<pin>>, 0)
    /\ serial' = serial \o out \o <<"line">>
    /\ UNCHANGED <<ina, _address, _board, oob, pc, nullCall>>

\* lines 70-77 of src.ino with ina unassigned: the call through the null
\* pointer is undefined; it hands back anything, never returns, or starts
\* the device over
PolledNull(out) ==
    /\ nullCall' = TRUE
    /\ op' = Op("loop", <<pin>>, 0)
    /\ tx' = <<>>
    /\ UNCHANGED <<_address, _board, clock, muxCtl, regs, rxBuf, nCalWr, oob,
                   sentinels>>
    /\ \/ /\ pwr_ps' \in NullReturns
          /\ pwr_pl' \in NullReturns
          /\ serial' = serial \o out \o <<"line">>
          /\ UNCHANGED <<ina, pc>>
       \/ /\ pc' = "halt"
          /\ serial' = serial \o out
          /\ UNCHANGED <<ina, pwr_ps, pwr_pl>>
       \/ /\ Restart
          /\ serial' = serial \o out

\* one iteration of loop() of src.ino
LoopPolled ==
    /\ pc = "loop"
    /\ Len(serial) + 2 <= MaxLines
    /\ LET trigState == pin
           log == IF build.ext THEN EdgeToggle(trigState, lastTrigState, logging)
                  ELSE logging
           out == IF build.ext /\ trigState /\ ~lastTrigState
                  THEN <<Marker(log)>> ELSE <<>>
       IN IF build.ext /\ ~log
          THEN /\ PolledIdle
               /\ serial' = serial \o out
               /\ logging' = log
               /\ lastTrigState' = trigState
               /\ UNCHANGED interrupt
               /\ UNCHANGED current
          ELSE IF ina = "constructed"
          THEN /\ PolledRead(out)
               /\ logging' = log
               /\ lastTrigState' = (build.ext /\ trigState)
               /\ UNCHANGED interrupt
               /\ UNCHANGED current
          ELSE /\ PolledNull(out)
               /\ IF pc' = "setup"
                  THEN TRUE
                  ELSE /\ logging' = log
                       /\ lastTrigState' = (build.ext /\ trigState)
                       /\ UNCHANGED interrupt
                       /\ UNCHANGED current
    /\ UNCHANGED <<build, pin>>

NextPolled ==
    \/ Setup("loop")
    \/ PinChange
    \/ LoopPolled

\* the sketch of src/src/src.ino built for one of the two boards
InitPolled == InitSketchOver(BoardMacros \ {"none"})

SpecPolled == InitPolled /\ [][NextPolled]_vars

\* the same sketch in every build configuration, the one without a board
\* macro included
InitAnyBuild == InitSketchOver(BoardMacros)

SpecAnyBuild == InitAnyBuild /\ [][NextPolled]_vars

\* triggerISR() of part_002, run by a change of the trigger line.  It runs
\* between any two statements of loop() but those between noInterrupts()
\* and interrupts(), which IsrIfInterrupt takes in one step.
TriggerISR ==
    /\ build.ext
    /\ pc \notin {"setup", "halt"}
    /\ pin' = ~pin
    /\ logging' = pin'
    /\ interrupt' = TRUE
    /\ UNCHANGED drvVars
    /\ UNCHANGED <<build, pc, lastTrigState, current, pwr_ps, pwr_pl, serial, nullCall>>

\* lines 61-65 of part_002: the test of interrupt and the critical section
IsrIfInterrupt ==
    /\ pc = "if_int"
    /\ IF ~build.ext
       THEN /\ pc' = "ps"
            /\ UNCHANGED <<current, interrupt>>
       ELSE IF interrupt
       THEN /\ current' = logging
            /\ interrupt' = FALSE
            /\ pc' = "print"
       ELSE /\ pc' = "if_log"
            /\ UNCHANGED <<current, interrupt>>
    /\ UNCHANGED drvVars
    /\ UNCHANGED <<build, pin, lastTrigState, logging, pwr_ps, pwr_pl, serial, nullCall>>

\* line 66 of part_002
IsrPrintMarker ==
    /\ pc = "print"
    /\ Len(serial) < MaxLines
    /\ serial' = Append(serial, Marker(current))
    /\ pc' = "if_log"
    /\ UNCHANGED drvVars
    /\ UNCHANGED <<build, pin, lastTrigState, logging, interrupt, current,
                   pwr_ps, pwr_pl, nullCall>>

\* lines 69-72 of part_002
IsrIfLogging ==
    /\ pc = "if_log"
    /\ pc' = (IF logging THEN "ps" ELSE "if_int")
    /\ UNCHANGED drvVars
    /\ UNCHANGED <<build, pin, lastTrigState, logging, interrupt, current,
                   pwr_ps, pwr_pl, serial, nullCall>>

\* line 75 of part_002
IsrGetPs ==
    /\ pc = "ps"
    /\ GetPwrWith(PS, LoopAnswers)
    /\ pwr_ps' = op'.ret
    /\ pc' = "pl"
    /\ UNCHANGED <<build, pin, lastTrigState, logging, interrupt, current,
                   pwr_pl, serial, nullCall>>

\* line 76 of part_002
IsrGetPl ==
    /\ pc = "pl"
    /\ GetPwrWith(PL, LoopAnswers)
    /\ pwr_pl' = op'.ret
    /\ pc' = "out"
    /\ UNCHANGED <<build, pin, lastTrigState, logging, interrupt, current,
                   pwr_ps, serial, nullCall>>

\* lines 78-82 of part_002
IsrPrintLine ==
    /\ pc = "out"
    /\ Len(serial) < MaxLines
    /\ serial' = Append(serial, "line")
    /\ pc' = "if_int"
    /\ UNCHANGED drvVars
    /\ UNCHANGED <<build, pin, lastTrigState, logging, interrupt, current,
                   pwr_ps, pwr_pl, nullCall>>

NextISR ==
    \/ Setup("if_int")
    \/ TriggerISR
    \/ IsrIfInterrupt
    \/ IsrPrintMarker
    \/ IsrIfLogging
    \/ IsrGetPs
    \/ IsrGetPl
    \/ IsrPrintLine

\* the trigger line is low as the sketch of part_002 starts
InitISR == InitSketchOver(BoardMacros \ {"none"}) /\ ~pin

\* the sketch of src/unnamed/part_002 built for one of the two boards
SpecISR == InitISR /\ [][NextISR]_vars


(* ---------------------------------------------------------------------- *)
(* Properties                                                              *)
(* ---------------------------------------------------------------------- *)
\* the 16-bit value of a register sent first byte high
RawOf(bytes) == bytes[1] * 256 + bytes[2]

\* the three bytes of a write of val to the calibration register
CalBytes(val) == <<CAL_REG, val \div 256, val % 256>>

\* the latest operation is a get_pwr whose select failed
SelectFailed == op.name = "get_pwr" /\ tx[1].res # 0

\* the latest operation is a get_pwr whose select succeeded and whose
\* register read failed, at the pointer write or at the byte count
ReadFailed ==
    /\ op.name = "get_pwr"
    /\ tx[1].res = 0
    /\ \/ tx[2].res # 0
       \/ Len(tx) >= 3 /\ tx[3].res # 2

\* the latest operation is a get_pwr whose select and read both succeeded
ReadSucceeded ==
    /\ op.name = "get_pwr"
    /\ Len(tx) >= 3
    /\ tx[1].res = 0 /\ tx[2].res = 0 /\ tx[3].res = 2

\* C1: a get_pwr(rail) whose select and register read both succeed returns
\* the raw content of the power register times lsb_val[board][rail] times 25.
C1_ScaledPower ==
    ReadSucceeded =>
        op.ret = RawOf(tx[3].bytes) * lsb_val[_board + 1][op.arg[1] + 1] * 25

\* get_pwr(PL) on a ZCU102 read raw 100 and returned 100 * 0.0005 * 25
C1_Witness ==
    /\ ReadSucceeded
    /\ _board = ZCU102 /\ op.arg = <<PL>>
    /\ tx[3].bytes = <<0, 100>>
    /\ op.ret = 100 * 1250 * 25

\* C2: when the select of a get_pwr ends with a non-zero status, get_pwr
\* returns -1.0 and issues nothing to the sensor: no register-pointer write
\* and no request.
C2_SelectFailureStops ==
    SelectFailed =>
        /\ op.ret = SENTINEL
        /\ Len(tx) = 1
        /\ NumSensorTx(tx) = 0

C2_Witness == SelectFailed /\ tx[1].res = 2 /\ op.ret = SENTINEL

\* C3: when the select succeeds and the register read fails (pointer write
\* not acknowledged, or a byte count other than 2), get_pwr returns -1.0,
\* reads no byte out of the receive buffer and scales nothing.
C3_ReadFailureStops ==
    ReadFailed =>
        /\ op.ret = SENTINEL
        /\ NumReads(tx) = 0
        /\ (Len(tx) >= 3 => rxBuf = tx[3].bytes)

\* one byte arrived instead of two and is still in the receive buffer
C3_Witness == ReadFailed /\ Len(tx) = 3 /\ tx[3].res = 1 /\ Len(rxBuf) = 1

\* C4: a constructor issues one calibration write per rail, PS then PL, each
\* right after the select of that rail, to register 0x05 with
\* cal_reg[board][rail]; no other operation issues a calibration write.
C4_CalibrationWrites ==
    /\ ina = "null" => nCalWr = 0
    /\ ina = "constructed" => nCalWr = NUM_SENS
    /\ op.name = "INA226" =>
          /\ Len(tx) = 2 + 2 * NUM_SENS
          /\ NumCalWrites(tx) = NUM_SENS
          /\ \A i \in Sensors :
                /\ IsSelect(tx[3 + 2 * i])
                /\ tx[3 + 2 * i].bytes = <<i + MUX_SENSOR_OFFSET>>
                /\ tx[4 + 2 * i].kind = "transmit"
                /\ tx[4 + 2 * i].addr = _address
                /\ tx[4 + 2 * i].bytes = CalBytes(cal_reg[_board + 1][i + 1])
    /\ op.name # "INA226" => NumCalWrites(tx) = 0

\* a constructor has returned and a get_pwr has run since
C4_Witness == ina = "constructed" /\ nCalWr = NUM_SENS /\ op.name = "get_pwr"

\* C5: when a constructor returns, the calibration register of each rail's
\* sensor holds cal_reg[board][rail].
C5_CalibrationGuaranteed ==
    op.name = "INA226" =>
        \A r \in Sensors :
            regs[r][_address][CAL_REG]
                = <<cal_reg[_board + 1][r + 1] \div 256, cal_reg[_board + 1][r + 1] % 256>>

\* C6: set_I2C_speed sets 400000 Hz for the high-speed request and 100000 Hz
\* for every other request.
C6_SpeedMapping ==
    op.name = "set_I2C_speed" =>
        /\ clock \in {I2C_SPEED_HIGH, I2C_SPEED_LOW}
        /\ (op.arg[1] = I2C_SPEED_HIGH => clock = I2C_SPEED_HIGH)
        /\ (op.arg[1] # I2C_SPEED_HIGH => clock = I2C_SPEED_LOW)

\* C7: a value written with _write_reg(reg, v) and acknowledged is what
\* _read_reg(reg) returns when it succeeds.
C7_RoundTrip ==
    (/\ op.name = "roundtrip"
     /\ tx[1].res = 0
     /\ op.ret >= 0)
        => op.ret = op.arg[2]

\* 0x1234 written and read back
C7_Witness ==
    /\ op.name = "roundtrip"
    /\ tx[1].res = 0
    /\ op.arg[2] = 4660
    /\ op.ret = 4660

\* C8: cal_reg and lsb_val are never indexed beyond their bounds and no
\* select is sent for a value that names no rail.
C8_EnumRejected ==
    /\ ~oob
    /\ \A i \in DOMAIN tx :
          IsSelect(tx[i]) => (tx[i].bytes[1] - MUX_SENSOR_OFFSET) \in Sensors

\* C9: set_addr(addr) makes addr the stored address, issues nothing on the
\* bus and leaves board, clock, routing and registers alone; the register
\* transactions of every operation go to the stored address.
C9_SetAddrFrame ==
    [][/\ op'.name = "set_addr" =>
            /\ _address' = op'.arg[1]
            /\ tx' = <<>>
            /\ UNCHANGED <<ina, _board, clock, muxCtl, regs, rxBuf, nCalWr>>
       /\ \A i \in DOMAIN tx' : IsSensorTx(tx'[i]) => tx'[i].addr = _address'
      ]_vars

\* after set_addr moved a driver built with the default address to the
\* second address, a rail is routed and the clock is set
C9_Witness ==
    /\ op.name = "set_addr"
    /\ op.arg = <<STD_ADDR + 1>>
    /\ _address = STD_ADDR + 1
    /\ muxCtl # 0
    /\ clock # 0

\* C10: one get_pwr issues one select, at most one register-pointer write
\* and at most one request, stops at the first step that fails, and returns
\* a value or the sentinel.
C10_NoRetry ==
    op.name = "get_pwr" =>
        /\ NumSelects(tx) = 1
        /\ NumPtrWrites(tx) <= 1
        /\ NumRequests(tx) <= 1
        /\ \A i \in DOMAIN tx :
              (\/ tx[i].kind = "transmit" /\ tx[i].res # 0
               \/ tx[i].kind = "requestFrom" /\ tx[i].res # 2) => i = Len(tx)
        /\ (op.ret = SENTINEL \/ op.ret >= 0)

\* the register-pointer write failed and nothing followed it
C10_Witness ==
    /\ op.name = "get_pwr"
    /\ Len(tx) = 2
    /\ tx[2].res # 0
    /\ op.ret = SENTINEL

\* C11: in every caller of the selector, constructors included, once a
\* select returned a non-zero status no register transaction goes to the
\* sensor until a later select has succeeded.
C11_NoAccessAfterFailedSelect ==
    \A i \in DOMAIN tx :
        (IsSelect(tx[i]) /\ tx[i].res # 0) =>
            \A j \in DOMAIN tx :
                (j > i /\ IsSensorTx(tx[j])) =>
                    \E k \in DOMAIN tx :
                        i < k /\ k < j /\ IsSelect(tx[k]) /\ tx[k].res = 0

\* C13: a constructor sets the bus clock once, to 400000 Hz, after begin()
\* and before the first multiplexer or sensor transaction.
C13_HighClockAtConstruction ==
    op.name = "INA226" =>
        /\ tx[1].kind = "begin"
        /\ tx[2].kind = "setClock"
        /\ tx[2].res = I2C_SPEED_HIGH
        /\ Cardinality({i \in DOMAIN tx : tx[i].kind = "setClock"}) = 1
        /\ clock = I2C_SPEED_HIGH

\* C16: every acknowledged select went to the multiplexer address with the
\* byte rail + 0x04, and a TCA9548A connects exactly one channel under that
\* byte, a different one for PS and PL.
C16_OneChannelSelected ==
    /\ \A i \in DOMAIN tx :
          (IsSelect(tx[i]) /\ tx[i].res = 0) =>
              /\ tx[i].addr = MUX_ADDR
              /\ Len(tx[i].bytes) = 1
              /\ (tx[i].bytes[1] - MUX_SENSOR_OFFSET) \in Sensors
              /\ Cardinality(TcaChannels(tx[i].bytes[1])) = 1
    /\ TcaChannels(PS + MUX_SENSOR_OFFSET) # TcaChannels(PL + MUX_SENSOR_OFFSET)

\* C17: get_pwr returns -1.0 exactly when the select or the register read
\* failed; a successful call returns a value >= 0.
C17_SentinelUnambiguous ==
    op.name = "get_pwr" =>
        /\ (op.ret = SENTINEL) <=> ~ReadSucceeded
        /\ ReadSucceeded => op.ret >= 0

\* a successful read of raw 0 returned 0, not the sentinel
C17_Witness ==
    /\ ReadSucceeded
    /\ tx[3].bytes = <<0, 0>>
    /\ op.ret = 0

\* the rail a sensor transaction of the latest operation is meant for: the
\* argument of get_pwr; in a constructor the rail whose calibration value
\* the write carries
RailAskedFor(e) ==
    IF op.name = "get_pwr" THEN op.arg[1]
    ELSE IF e.bytes = CalBytes(cal_reg[_board + 1][PS + 1]) THEN PS
    ELSE PL

\* C12: in constructors and get_pwr every transaction to the sensor comes
\* after a select of the rail asked for, made in the same operation with no
\* other select in between, and a successful get_pwr(r) gets its bytes from
\* the sensor of rail r.
C12_SelectBeforeAccess ==
    op.name \in {"INA226", "get_pwr"} =>
        /\ \A j \in DOMAIN tx :
              IsSensorTx(tx[j]) =>
                  \E i \in DOMAIN tx :
                      /\ i < j
                      /\ IsSelect(tx[i])
                      /\ tx[i].bytes = <<RailAskedFor(tx[IF IsRequest(tx[j]) THEN j - 1 ELSE j])
                                           + MUX_SENSOR_OFFSET>>
                      /\ \A k \in DOMAIN tx : (i < k /\ k < j) => ~IsSelect(tx[k])
        /\ ReadSucceeded => tx[3].rail = op.arg[1]

\* get_pwr(PS) succeeded and the bytes came from the PS sensor
C12_Witness ==
    /\ ReadSucceeded
    /\ op.arg = <<PS>>
    /\ IsSelect(tx[1]) /\ tx[1].bytes = <<PS + MUX_SENSOR_OFFSET>>
    /\ tx[3].rail = PS
    /\ muxCtl = PS + MUX_SENSOR_OFFSET

\* C14: _read_reg returns -1 exactly when the register-pointer write was
\* not acknowledged or the byte count was not 2; otherwise it returns the
\* two received bytes, first byte high, as a value in 0..65535.
C14_ReadRegResult ==
    op.name = "roundtrip" =>
        LET failed == tx[2].res # 0 \/ tx[3].res # 2
        IN /\ (op.ret = 0 - 1) <=> failed
           /\ ~failed =>
                 /\ op.ret = tx[3].bytes[1] * 256 + tx[3].bytes[2]
                 /\ op.ret \in 0..65535

\* a register holding 0xFFFF was read as 65535
C14_Witness ==
    /\ op.name = "roundtrip"
    /\ Len(tx) = 5
    /\ tx[3].bytes = <<255, 255>>
    /\ op.ret = 65535

\* C15: get_pwr leaves the driver's members alone and does the same bus
\* work whatever earlier calls returned: it selects, reads when the select
\* is acknowledged, and returns the scaled register when the read succeeds.
C15_NoFailureState ==
    [][op'.name = "get_pwr" =>
          /\ UNCHANGED <<ina, _address, _board>>
          /\ Len(tx') >= 1 /\ IsSelect(tx'[1])
          /\ tx'[1].res = 0 => (Len(tx') >= 2 /\ IsPtrWrite(tx'[2]))
          /\ (tx'[1].res = 0 /\ tx'[2].res = 0) => (Len(tx') >= 3 /\ IsRequest(tx'[3]))
          /\ (tx'[1].res = 0 /\ tx'[2].res = 0 /\ tx'[3].res = 2) =>
                /\ tx'[3].rail = op'.arg[1]
                /\ op'.ret = RawOf(tx'[3].bytes)
                               * lsb_val[_board' + 1][op'.arg[1] + 1] * POWER_LSB_SCALE
      ]_vars

\* a get_pwr succeeded after two or more calls had returned the sentinel
C15_Witness ==
    /\ ReadSucceeded
    /\ sentinels >= 2
    /\ op.ret = RawOf(tx[3].bytes) * lsb_val[_board + 1][op.arg[1] + 1] * POWER_LSB_SCALE

IsMarker(e) == e \in {"#START", "#STOP"}

\* the printed markers are #START, #STOP, #START, ... in this order
MarkersAlternate(s) ==
    LET m == SelectSeq(s, IsMarker)
    IN \A i \in DOMAIN m : m[i] = (IF i % 2 = 1 THEN "#START" ELSE "#STOP")

\* every reading line has a #START before it and no #STOP in between
LinesInsideStart(s) ==
    \A i \in DOMAIN s : s[i] = "line" =>
        \E j \in DOMAIN s : /\ j < i
                            /\ s[j] = "#START"
                            /\ \A k \in DOMAIN s : (j < k /\ k < i) => s[k] # "#STOP"

\* what one iteration of the polled loop does to logging and to the output
PolledIteration ==
    LET edge == pin /\ ~lastTrigState
    IN /\ (logging' # logging) <=> edge
       /\ lastTrigState' = pin
       /\ logging' => (NumSelects(tx') = NUM_SENS \/ nullCall')
       /\ ~logging' => (tx' = <<>> /\ nullCall' = nullCall)
       /\ serial' = serial \o (IF edge THEN <<Marker(logging')>> ELSE <<>>)
                           \o (IF logging' THEN <<"line">> ELSE <<>>)

\* C18: with EXT_TRIGGER defined, logging flips exactly in the iterations
\* that sample the pin HIGH after a LOW sample, the markers alternate from
\* #START on, and an iteration reads both rails and prints a line exactly
\* when logging is on after its edge check.
C18_PolledToggle ==
    /\ [](build.ext => (MarkersAlternate(serial) /\ LinesInsideStart(serial)))
    /\ [][(build.ext /\ pc = "loop" /\ pin' = pin) => PolledIteration]_vars

\* a start, two readings and a stop were printed in a build with the trigger
C18_Witness ==
    /\ build.ext
    /\ serial = <<"#START", "line", "line", "#STOP">>
    /\ ~logging
    /\ lastTrigState

\* C20: loop() never calls get_pwr through the unassigned pointer.
C20_NoNullCall == ~nullCall

\* C19: with triggerISR running between the statements of loop(), every
\* reading line follows a #START with no #STOP in between and the markers
\* alternate.
C19_ConsistentLog ==
    build.ext => (LinesInsideStart(serial) /\ MarkersAlternate(serial))

====
